---- MODULE Spec2Model ----
(***************************************************************************)
(* Model of src/src/App.tsx (the later of the two revisions the file       *)
(* holds, lines 164-357): the App component of the ENV Monitor dashboard.  *)
(*                                                                         *)
(* State: the five useState cells, the interval handle, the queries that   *)
(* queryRows has started and whose callbacks are still to come, and the    *)
(* rendered view.  One action per handler: the effect body (mount), the    *)
(* interval callback, the continuation of fetchData after its await, the   *)
(* three queryRows callbacks (next, error, complete) and the effect        *)
(* cleanup.  A setter called after the cleanup is modelled as the source   *)
(* writes it: unconditionally (no liveness flag guards the callbacks).     *)
(*                                                                         *)
(* Spec is the whole life of the component.  SpecRows is the first poll    *)
(* cycle with a longer row stream; SpecLatest completes one temperature    *)
(* query over every short row stream, for the summary card.                *)
(***************************************************************************)
EXTENDS Integers, Sequences, FiniteSets, TLC

\* ---------------------------------------------------------------- bounds
MaxCycles     == 2  \* fetchData calls modelled (the initial call and the timer ticks)
MaxRows       == 1  \* rows the database delivers over a whole run of Spec
MaxStreamRows == 2  \* rows the database delivers during the first cycle in SpecRows
MaxLen        == 3  \* longest row stream drawn in SpecLatest

\* ------------------------------------------------------------- JS values
\* obj._value is a number or null.  Numbers are kept in quarters (n/4) so
\* that every value, and every tie of toFixed(1), is exact in binary.
Null   == [type |-> "null"]
Num(n) == [type |-> "number", n |-> n]

\* The values a row of the aggregated stream may carry: in Spec, in SpecRows
\* (0 told apart from null) and in SpecLatest (negative, zero, 20.25).
RowValues    == {Num(3)}
StreamValues == {Null, Num(0), Num(3)}
LatestValues == {Null, Num(0 - 1), Num(0), Num(81)}

\* fetchData: the three fetchInfluxData calls of Promise.all([...]).
Fields == {"temperature", "humidity", "pressure"}

\* aggregateWindow(every: 5m): the k-th row of a stream closes the k-th
\* five-minute window; _time is a calendar time of day (hour, minute).
WindowMinutes == 5

RowTime(k) == [hour   |-> (WindowMinutes * k) \div 60,
               minute |-> (WindowMinutes * k) % 60]

\* new Date(obj._time).getTime(): calendar time to epoch milliseconds.
DateGetTime(t) == (t.hour * 60 + t.minute) * 60000

VARIABLES
  temperatureData,   \* useState<ChartData[]>([])
  humidityData,      \* useState<ChartData[]>([])
  pressureData,      \* useState<ChartData[]>([])
  loading,           \* useState<boolean>(true)
  error,             \* useState<boolean>(false)
  phase,             \* "created" (rendered, effect not yet run), "mounted", "unmounted"
  interval,          \* TRUE while the setInterval handle is live
  pc,                \* "idle", or "awaiting": fetchData is suspended at its await
  cycles,            \* number of fetchData calls so far
  queries,           \* <<cycle, field>> -> a query whose error/complete callback is still to come
  rowsLeft,          \* rows the database will still deliver (the bound on row traffic)
  cycleFailed,       \* history: fetches of the latest cycle that have failed so far
  errorAtEnd,        \* history: the error flag when the latest cycle set loading to false
  lastSettled,       \* history: the cycle of the fetch that settled most recently
  view               \* what the last render returned

vars == <<temperatureData, humidityData, pressureData, loading, error, phase,
          interval, pc, cycles, queries, rowsLeft, cycleFailed, errorAtEnd,
          lastSettled, view>>

\* ------------------------------------------------------- state accessors
\* The series a field's setter writes (the setData argument of fetchInfluxData).
Data(field) ==
  CASE field = "temperature" -> temperatureData
    [] field = "humidity"    -> humidityData
    [] field = "pressure"    -> pressureData

\* setData(results): setTemperatureData / setHumidityData / setPressureData.
\* (SetData_merge: setData(prev => [...prev, ...results]).)
SetData_merge(field, results) ==
  /\ temperatureData' = IF field = "temperature" THEN temperatureData \o results
                                                 ELSE temperatureData
  /\ humidityData'    = IF field = "humidity"    THEN humidityData \o results
                                                 ELSE humidityData
  /\ pressureData'    = IF field = "pressure"    THEN pressureData \o results
                                                 ELSE pressureData

SetData(field, results) ==
  /\ temperatureData' = IF field = "temperature" THEN results ELSE temperatureData
  /\ humidityData'    = IF field = "humidity"    THEN results ELSE humidityData
  /\ pressureData'    = IF field = "pressure"    THEN results ELSE pressureData

\* ------------------------------------------------------- pure functions
\* `x.value != null` on a ChartData: the property is absent (undefined) or null.
HasValue(p) == "value" \in DOMAIN p /\ p.value # Null

\* The next callback of queryRows: results.push(...) for one row object.
\* (next_truthy: `if (obj._value)` in place of `if (obj._value != null)`.)
next_truthy(results, obj) ==
  IF obj._value # Null /\ obj._value.n # 0
    THEN Append(results, [time |-> DateGetTime(obj._time), value |-> obj._value])
    ELSE Append(results, [time |-> DateGetTime(obj._time)])

next(results, obj) ==
  IF obj._value # Null
    THEN Append(results, [time |-> DateGetTime(obj._time), value |-> obj._value])
    ELSE Append(results, [time |-> DateGetTime(obj._time)])

\* Number.prototype.toFixed(1) as a decimal string <<sign, whole, tenth>>:
\* the nearest tenth, the larger one on a tie, the sign put in front.
toFixed1(v) ==
  LET a == IF v.n < 0 THEN 0 - v.n ELSE v.n
      t == (5 * a + 1) \div 2
  IN  <<IF v.n < 0 THEN "-" ELSE "", t \div 10, t % 10>>

NA == <<"N/A">>

\* The for loop of getLatestValue, from index i down to the first element.
RECURSIVE ScanBack(_, _)
ScanBack(data, i) ==
  IF i < 1 THEN NA
  ELSE IF HasValue(data[i]) THEN toFixed1(data[i].value)
  ELSE ScanBack(data, i - 1)

\* The earlier revision of getLatestValue (lines 89-93): the last point only.
getLatestValue_lastOnly(data) ==
  IF Len(data) = 0 THEN NA
  ELSE IF HasValue(data[Len(data)]) THEN toFixed1(data[Len(data)].value)
  ELSE NA

getLatestValue(data) ==
  IF Len(data) = 0 THEN NA ELSE ScanBack(data, Len(data))

\* renderChart: the summary card above a chart.
NoDataAvailable == <<"No data available">>

renderChart(data) ==
  LET latestValue == getLatestValue(data)
  IN  IF latestValue # NA THEN latestValue ELSE NoDataAvailable

\* Date.toLocaleString with hour and minute: epoch milliseconds to <<hour, minute>>.
toLocaleString(ms) == <<(ms \div 3600000) % 24, (ms \div 60000) % 60>>

NotShown == <<>>

\* The JSX App returns: the loading message, the error message, or the
\* "Updated at" line with the three charts.
\* (Render_errorFirst: the two outer conditions in the other order.)
Render_errorFirst(l, e, t, h, p) ==
  IF e THEN [screen |-> "error", updatedAt |-> NotShown,
             charts |-> [f \in Fields |-> NotShown]]
  ELSE IF l THEN [screen |-> "loading", updatedAt |-> NotShown,
                  charts |-> [f \in Fields |-> NotShown]]
  ELSE [screen    |-> "ready",
        updatedAt |-> IF Len(t) > 0 THEN toLocaleString(t[Len(t)].time) ELSE NA,
        charts    |-> [f \in Fields |->
                         renderChart(CASE f = "temperature" -> t
                                       [] f = "humidity"    -> h
                                       [] f = "pressure"    -> p)]]

Render(l, e, t, h, p) ==
  IF l THEN [screen |-> "loading", updatedAt |-> NotShown,
             charts |-> [f \in Fields |-> NotShown]]
  ELSE IF e THEN [screen |-> "error", updatedAt |-> NotShown,
                  charts |-> [f \in Fields |-> NotShown]]
  ELSE [screen    |-> "ready",
        updatedAt |-> IF Len(t) > 0 THEN toLocaleString(t[Len(t)].time) ELSE NA,
        charts    |-> [f \in Fields |->
                         renderChart(CASE f = "temperature" -> t
                                       [] f = "humidity"    -> h
                                       [] f = "pressure"    -> p)]]

\* After the component is unmounted nothing is rendered any more.
Removed == [screen |-> "removed", updatedAt |-> NotShown,
            charts |-> [f \in Fields |-> NotShown]]

\* React re-renders a mounted component after a state change.
Rerender ==
  view' = IF phase' = "unmounted" THEN Removed
          ELSE Render(loading', error', temperatureData', humidityData', pressureData')

\* ---------------------------------------------------------------- Init
NoQueries == [id \in {} |-> Null]

\* The component after its first render, before the effect has run; `rows`
\* is the number of rows the database will deliver.
Start(rows) ==
  /\ temperatureData = <<>>
  /\ humidityData = <<>>
  /\ pressureData = <<>>
  /\ loading = TRUE
  /\ error = FALSE
  /\ phase = "created"
  /\ interval = FALSE
  /\ pc = "idle"
  /\ cycles = 0
  /\ queries = NoQueries
  /\ rowsLeft = rows
  /\ cycleFailed = 0
  /\ errorAtEnd = FALSE
  /\ lastSettled = 0
  /\ view = Render(TRUE, FALSE, <<>>, <<>>, <<>>)

Init == Start(MaxRows)

\* -------------------------------------------------------------- actions
Pending(id) == id \in DOMAIN queries

\* `queries` without the query whose error or complete callback has just run.
Settle(id) == [i \in DOMAIN queries \ {id} |-> queries[i]]

\* fetchData up to its await (lines 237-244): setLoading(true), then the
\* three fetchInfluxData calls.  Each call starts its query and returns at
\* once (queryRows is not awaited); for the fields in `thrown` queryRows
\* throws and the catch block of fetchInfluxData calls setError(true).
\* fetchInfluxData catches whatever queryRows throws, so its promise never
\* rejects and the catch block of fetchData (lines 245-246) never runs.
fetchData(thrown) ==
  /\ loading' = TRUE
  /\ cycles' = cycles + 1
  /\ error' = IF thrown # {} THEN TRUE ELSE error
  /\ queries' = queries @@
       [id \in {cycles + 1} \X (Fields \ thrown) |-> [rows |-> <<>>, results |-> <<>>]]
  /\ pc' = "awaiting"
  /\ cycleFailed' = Cardinality(thrown)
  /\ lastSettled' = IF thrown # {} THEN cycles + 1 ELSE lastSettled
  /\ UNCHANGED <<temperatureData, humidityData, pressureData, rowsLeft, errorAtEnd>>

\* The effect body (lines 252-253): the initial fetchData() and setInterval.
Mount ==
  /\ phase = "created"
  /\ phase' = "mounted"
  /\ interval' = TRUE
  /\ \E thrown \in SUBSET Fields : fetchData(thrown)
  /\ Rerender

\* The interval callback: setInterval(fetchData, 60000).
\* (Tick_skipWhileBusy: a tick dropped while a query is outstanding.)
Tick_skipWhileBusy ==
  /\ interval
  /\ pc = "idle"
  /\ cycles < MaxCycles
  /\ DOMAIN queries = {}
  /\ \E thrown \in SUBSET Fields : fetchData(thrown)
  /\ UNCHANGED <<phase, interval>>
  /\ Rerender

Tick ==
  /\ interval
  /\ pc = "idle"
  /\ cycles < MaxCycles
  /\ \E thrown \in SUBSET Fields : fetchData(thrown)
  /\ UNCHANGED <<phase, interval>>
  /\ Rerender

\* fetchData after its await (lines 247-249).  The promises of the three
\* fetchInfluxData calls are already resolved, so the continuation is a
\* microtask of the task that made the calls: it runs before any timer,
\* network callback or unmount, hence pc = "idle" in their guards.
fetchDataFinally ==
  /\ pc = "awaiting"
  /\ loading' = FALSE
  /\ pc' = "idle"
  /\ errorAtEnd' = error
  /\ UNCHANGED <<temperatureData, humidityData, pressureData, error, phase,
                 interval, cycles, queries, rowsLeft, cycleFailed, lastSettled>>
  /\ Rerender

\* queryRows delivers one row to the next callback (lines 204-217).
OnNext(id, value) ==
  /\ pc = "idle"
  /\ Pending(id)
  /\ rowsLeft > 0
  /\ LET q   == queries[id]
         obj == [_time |-> RowTime(Len(q.rows) + 1), _value |-> value]
     IN  queries' = [queries EXCEPT ![id] =
                       [rows    |-> Append(q.rows, obj),
                        results |-> next(q.results, obj)]]
  /\ rowsLeft' = rowsLeft - 1
  /\ UNCHANGED <<temperatureData, humidityData, pressureData, loading, error,
                 phase, interval, pc, cycles, cycleFailed, errorAtEnd,
                 lastSettled, view>>

\* The error callback (lines 219-222): setError(true).
OnError(id) ==
  /\ pc = "idle"
  /\ Pending(id)
  /\ error' = TRUE
  /\ queries' = Settle(id)
  /\ cycleFailed' = IF id[1] = cycles THEN cycleFailed + 1 ELSE cycleFailed
  /\ lastSettled' = id[1]
  /\ UNCHANGED <<temperatureData, humidityData, pressureData, loading, phase,
                 interval, pc, cycles, rowsLeft, errorAtEnd>>
  /\ Rerender

\* The complete callback (lines 224-226): setData(results).
OnComplete(id) ==
  /\ pc = "idle"
  /\ Pending(id)
  /\ SetData(id[2], queries[id].results)
  /\ queries' = Settle(id)
  /\ lastSettled' = id[1]
  /\ UNCHANGED <<loading, error, phase, interval, pc, cycles, rowsLeft,
                 cycleFailed, errorAtEnd>>
  /\ Rerender

\* The effect cleanup (line 255): clearInterval(interval).
\* (Cleanup_keepInterval: a cleanup that leaves the timer running.)
Cleanup_keepInterval ==
  /\ phase = "mounted"
  /\ pc = "idle"
  /\ phase' = "unmounted"
  /\ UNCHANGED <<temperatureData, humidityData, pressureData, loading, error,
                 interval, pc, cycles, queries, rowsLeft, cycleFailed, errorAtEnd,
                 lastSettled>>
  /\ Rerender

Cleanup ==
  /\ phase = "mounted"
  /\ pc = "idle"
  /\ phase' = "unmounted"
  /\ interval' = FALSE
  /\ UNCHANGED <<temperatureData, humidityData, pressureData, loading, error,
                 pc, cycles, queries, rowsLeft, cycleFailed, errorAtEnd,
                 lastSettled>>
  /\ Rerender

Next ==
  \/ Mount
  \/ Tick
  \/ fetchDataFinally
  \/ \E id \in DOMAIN queries : \E value \in RowValues : OnNext(id, value)
  \/ \E id \in DOMAIN queries : OnError(id)
  \/ \E id \in DOMAIN queries : OnComplete(id)
  \/ Cleanup

Spec == Init /\ [][Next]_vars

\* ------------------------------------------- the first cycle, row by row
\* The first poll cycle alone (no timer tick yet), with a longer row stream
\* and with rows whose value is 0.
InitRows == Start(MaxStreamRows)

NextRows ==
  \/ Mount
  \/ fetchDataFinally
  \/ \E id \in DOMAIN queries : \E value \in StreamValues : OnNext(id, value)
  \/ \E id \in DOMAIN queries : OnError(id)
  \/ \E id \in DOMAIN queries : OnComplete(id)
  \/ Cleanup

SpecRows == InitRows /\ [][NextRows]_vars

\* -------------------------------------- the summary card, series by series
\* What the next callback has pushed after the rows of a stream.
RECURSIVE ResultsOf(_)
ResultsOf(rows) ==
  IF rows = <<>> THEN <<>>
  ELSE next(ResultsOf(SubSeq(rows, 1, Len(rows) - 1)), rows[Len(rows)])

\* The first cycle has ended, humidity and pressure have completed without
\* rows, and the temperature query has received a stream of at most MaxLen
\* rows and is about to complete.
InitLatest ==
  /\ temperatureData = <<>>
  /\ humidityData = <<>>
  /\ pressureData = <<>>
  /\ loading = FALSE
  /\ error = FALSE
  /\ phase = "mounted"
  /\ interval = TRUE
  /\ pc = "idle"
  /\ cycles = 1
  /\ \E n \in 0..MaxLen : \E values \in [1..n -> LatestValues] :
       LET rows == [k \in 1..n |-> [_time |-> RowTime(k), _value |-> values[k]]]
       IN  queries = (<<1, "temperature">> :> [rows |-> rows, results |-> ResultsOf(rows)])
  /\ rowsLeft = 0
  /\ cycleFailed = 0
  /\ errorAtEnd = FALSE
  /\ lastSettled = 1
  /\ view = Render(FALSE, FALSE, <<>>, <<>>, <<>>)

NextLatest == \E id \in DOMAIN queries : OnComplete(id)

SpecLatest == InitLatest /\ [][NextLatest]_vars

\* ================================================================ claims
LatestPending == {f \in Fields : <<cycles, f>> \in DOMAIN queries}

Series == <<temperatureData, humidityData, pressureData>>

\* C1: a poll cycle sets loading to false only after all three fetches it
\* started have settled: in no reachable state is loading false while a
\* fetch of the latest cycle is still outstanding.
C1_CycleEndsAfterFetchesSettle ==
  loading = FALSE => LatestPending = {}

\* C2: in a cycle where exactly one of the three fetches fails, the other two
\* still run to completion, and the error flag is true at the moment the
\* cycle sets loading to false.
C2_OneFailureEndsCycleInError ==
  (cycles > 0 /\ pc = "idle" /\ LatestPending = {} /\ cycleFailed = 1)
    => errorAtEnd = TRUE

\* C3: when the most recently completed cycle had three successful fetches
\* the error flag is false, also when an earlier cycle had failed.  (The
\* latest cycle is the most recently completed one when nothing is
\* outstanding and the last fetch to settle was one of its own.)
C3_ErrorClearedBySuccessfulCycle ==
  (cycles > 0 /\ pc = "idle" /\ DOMAIN queries = {} /\ lastSettled = cycles
     /\ cycleFailed = 0)
    => error = FALSE

\* C4: after the effect cleanup has run no further poll cycle starts: the
\* count of started cycles never changes again, whatever is still pending.
C4_NoCycleAfterTeardown ==
  [][phase = "unmounted" => cycles' = cycles]_vars

\* C4 witness: torn down after the first cycle, with fetches of that cycle
\* still outstanding and the bound on cycles not yet reached.
C4_Witness ==
  /\ phase = "unmounted"
  /\ cycles = 1
  /\ cycles < MaxCycles
  /\ DOMAIN queries # {}

\* C5: after teardown no complete or error callback of an earlier-started
\* fetch, and no end-of-cycle step, changes a series, the error flag or the
\* loading flag.
C5_LateResultsIgnored ==
  [][phase = "unmounted" =>
       UNCHANGED <<temperatureData, humidityData, pressureData, error, loading>>]_vars

\* What C6 asks of the series handed to setData for a delivered row stream.
IsPointsOf(series, rows) ==
  /\ Len(series) = Len(rows)
  /\ \A i \in 1..Len(rows) :
       /\ series[i].time = DateGetTime(rows[i]._time)
       /\ rows[i]._value = Null => "value" \notin DOMAIN series[i]
       /\ rows[i]._value # Null =>
            "value" \in DOMAIN series[i] /\ series[i].value = rows[i]._value

\* C6: when a query completes, the series handed to setData has exactly one
\* point per delivered row, in delivery order, each with that row's
\* timestamp; a row without a value gives a point without a value (not 0,
\* not dropped) and a row with a value gives a point with that value.
C6_OnePointPerRow ==
  [][\A id \in DOMAIN queries \ DOMAIN queries' :
       IsPointsOf(Data(id[2])', queries[id].rows) \/ ~OnComplete(id)]_vars

\* C6 witness: a completed stream of a valueless row followed by a row of
\* value 0.
C6_Witness ==
  \E f \in Fields :
    Data(f) = <<[time |-> 300000], [time |-> 600000, value |-> Num(0)]>>

\* The indices of the points of a series that have a value.
Valued(data) == {i \in 1..Len(data) : HasValue(data[i])}

Highest(S) == CHOOSE i \in S : \A j \in S : j <= i

\* C7: getLatestValue returns the value, to one decimal, of the highest-index
\* point that has a value, and 'N/A' exactly when the series is empty or no
\* point of it has a value.
C7_LatestValueSkipsGaps ==
  \A f \in Fields :
    LET data == Data(f)
    IN  /\ Valued(data) # {} =>
             getLatestValue(data) = toFixed1(data[Highest(Valued(data))].value)
        /\ (getLatestValue(data) = NA) <=> (Valued(data) = {})

\* C7 witness: 20.25 followed by two valueless points is shown as "20.3".
C7_Witness ==
  /\ Len(temperatureData) = 3
  /\ Valued(temperatureData) = {1}
  /\ temperatureData[1].value = Num(81)
  /\ view.charts["temperature"] = <<"", 20, 3>>

ScreenOf(l, e) == IF l THEN "loading" ELSE IF e THEN "error" ELSE "ready"

C8_ViewMatchesFlags ==
  phase # "unmounted" =>
    /\ view.screen = ScreenOf(loading, error)
    /\ view.screen \in {"loading", "error", "ready"}
    /\ (loading \/ error) =>
         (view.updatedAt = NotShown /\ \A f \in Fields : view.charts[f] = NotShown)
    /\ (view.updatedAt # NotShown \/ \E f \in Fields : view.charts[f] # NotShown)
         => view.screen = "ready"

C8_StartsLoading ==
  loading = TRUE /\ error = FALSE /\ Series = <<<<>>, <<>>, <<>>>>
    /\ view.screen = "loading"

\* C8: the root view is always exactly one of Loading, Error, Ready; it
\* starts in Loading with error false and three empty series, is Loading
\* again at the start of every cycle, and at the end of a cycle is Error if
\* the error flag is set and Ready otherwise; the charts and the 'Updated at'
\* time are shown only in Ready.
C8_LoadingErrorReady ==
  /\ C8_StartsLoading
  /\ C8_ViewMatchesFlags
  /\ [][/\ C8_ViewMatchesFlags'
        /\ (cycles' # cycles /\ phase' # "unmounted") => view'.screen = "loading"
        /\ (loading /\ ~loading' /\ phase' # "unmounted") =>
             view'.screen = (IF error' THEN "error" ELSE "ready")]_vars

\* C8 witness: the second cycle starts after a failed first one: the view is
\* Loading although the error flag is set.
C8_Witness ==
  /\ phase = "mounted"
  /\ cycles = 2
  /\ pc = "awaiting"
  /\ error
  /\ view.screen = "loading"

\* C9: every firing of the timer before teardown starts a new cycle of three
\* fetches whether or not earlier fetches are outstanding: a tick is enabled
\* whenever the interval is live, and a new cycle attempts its three fetches
\* and leaves the outstanding ones in flight.
C9_TicksNotDeduplicated ==
  /\ []((interval /\ pc = "idle" /\ cycles < MaxCycles) => ENABLED Tick)
  /\ [][cycles' # cycles =>
          /\ cycles' = cycles + 1
          /\ Cardinality({f \in Fields : <<cycles', f>> \in DOMAIN queries'})
               + cycleFailed' = Cardinality(Fields)
          /\ \A id \in DOMAIN queries :
               id \in DOMAIN queries' /\ queries'[id] = queries[id]]_vars

\* C9 witness: fetches of two different cycles for the same metric in flight.
C9_Witness ==
  \E f \in Fields : <<1, f>> \in DOMAIN queries /\ <<2, f>> \in DOMAIN queries

\* C10: a metric's series changes only when a fetch for that metric
\* completes, and then equals exactly that fetch's points; a failing fetch
\* leaves all three series unchanged; no fetch changes another metric's
\* series.
C10_SeriesReplacedWholesale ==
  [][/\ Series' # Series =>
          \A f \in Fields :
            Data(f)' # Data(f) =>
              \E id \in DOMAIN queries \ DOMAIN queries' :
                /\ id[2] = f
                /\ Data(f)' = queries[id].results
                /\ \A g \in Fields \ {f} : Data(g)' = Data(g)
     /\ \A id \in DOMAIN queries \ DOMAIN queries' :
          /\ Data(id[2])' = queries[id].results \/ ~OnComplete(id)
          /\ Series' = Series \/ ~OnError(id)]_vars

\* C10 witness: the one row the database delivered went to a fetch that
\* completed (no fetch has failed), and a later fetch for the same metric
\* has since completed without rows: the series is empty again.
C10_Witness ==
  /\ rowsLeft = 0
  /\ MaxRows > 0
  /\ DOMAIN queries = {}
  /\ ~error
  /\ Series = <<<<>>, <<>>, <<>>>>
====
